---- MODULE Spec2Model ----
(***************************************************************************)
(* Model of scraper.py: build_site = scrape_linktree_data, then            *)
(* download_profile_picture, then generate_html (social-link loop, link    *)
(* loop, write of index.html), then generate_css.                          *)
(*                                                                         *)
(* Python strings are TLA+ strings, handled with Len, SubSeq and \o; the    *)
(* string methods the code calls (strip, lower, upper, title, replace,     *)
(* split, urlparse(...).netloc) are computed character by character.       *)
(* A JSON value is a record [k, s, n]: k is the Python type name, s the    *)
(* text of a str, n the number of an int or the length of a list or dict.  *)
(***************************************************************************)
EXTENDS Integers, Sequences, FiniteSets, TLC

VARIABLES
  pc,            \* position of the run in build_site / generate_html
  doc,           \* the saved page handed to scrape_linktree_data
  data,          \* the dict scrape_linktree_data returned
  err,           \* the exception that left build_site and the step that raised it
  files,         \* names of the files written under output_dir
  fetches,       \* number of requests for the profile picture
  diags,         \* the lines printed, in order
  social_idx,    \* entries of social_links the first loop is done with
  social_items,  \* social_items of generate_html
  idx,           \* entries of raw_links the second loop is done with
  link_items,    \* link_items of generate_html
  page           \* what index.html was written from, <<>> before that

vars == <<pc, doc, data, err, files, fetches, diags,
          social_idx, social_items, idx, link_items, page>>

\* ------------------------------------------------------------- bounds
MaxLen == 2

\* ------------------------------------------------------ string methods
UPPERCASE == "ABCDEFGHIJKLMNOPQRSTUVWXYZ"
LOWERCASE == "abcdefghijklmnopqrstuvwxyz"
DIGITS == "0123456789"

Ch(s, i) == SubSeq(s, i, i)

Rest(s, i) == SubSeq(s, i, Len(s))

\* s.find(c) for a one-character c, 1-based; 0 when c does not occur
Find(s, c) ==
  IF \E i \in 1..Len(s) : Ch(s, i) = c
  THEN CHOOSE i \in 1..Len(s) : Ch(s, i) = c /\ \A j \in 1..(i - 1) : Ch(s, j) # c
  ELSE 0

Contains(s, c) == Find(s, c) # 0

StartsWith(s, p) == Len(s) >= Len(p) /\ SubSeq(s, 1, Len(p)) = p

IsUpper(c) == Contains(UPPERCASE, c)

IsLower(c) == Contains(LOWERCASE, c)

IsAlpha(c) == IsUpper(c) \/ IsLower(c)

LowerChar(c) == IF IsUpper(c) THEN Ch(LOWERCASE, Find(UPPERCASE, c)) ELSE c

UpperChar(c) == IF IsLower(c) THEN Ch(UPPERCASE, Find(LOWERCASE, c)) ELSE c

RECURSIVE Lower(_)
Lower(s) == IF s = "" THEN "" ELSE LowerChar(Ch(s, 1)) \o Lower(Rest(s, 2))

RECURSIVE Upper(_)
Upper(s) == IF s = "" THEN "" ELSE UpperChar(Ch(s, 1)) \o Upper(Rest(s, 2))

\* str.title(): a cased character is upper-cased when it follows an uncased
\* one (or starts the string) and lower-cased when it follows a cased one
RECURSIVE TitleFrom(_, _)
TitleFrom(s, prevCased) ==
  IF s = "" THEN ""
  ELSE LET c == Ch(s, 1)
       IN (IF ~IsAlpha(c) THEN c
           ELSE IF prevCased THEN LowerChar(c) ELSE UpperChar(c))
          \o TitleFrom(Rest(s, 2), IsAlpha(c))

Title(s) == TitleFrom(s, FALSE)

RECURSIVE LStrip(_)
LStrip(s) == IF s # "" /\ Ch(s, 1) = " " THEN LStrip(Rest(s, 2)) ELSE s

RECURSIVE RStrip(_)
RStrip(s) ==
  IF s # "" /\ Ch(s, Len(s)) = " " THEN RStrip(SubSeq(s, 1, Len(s) - 1)) ELSE s

Strip(s) == RStrip(LStrip(s))

\* s.replace(old, new): every non-overlapping occurrence, left to right
RECURSIVE Replace(_, _, _)
Replace(s, old, new) ==
  IF s = "" THEN ""
  ELSE IF StartsWith(s, old)
       THEN new \o Replace(Rest(s, Len(old) + 1), old, new)
       ELSE Ch(s, 1) \o Replace(Rest(s, 2), old, new)

\* s.split(c)[0]
SplitFirst(s, c) == IF Contains(s, c) THEN SubSeq(s, 1, Find(s, c) - 1) ELSE s

\* ------------------------------------------------------------ JSON values
Val(k, s, n) == [k |-> k, s |-> s, n |-> n]

Absent == Val("absent", "", 0)

None == Val("NoneType", "", 0)

Str(s) == Val("str", s, 0)

Num(n) == Val("int", "", n)

List(n) == Val("list", "", n)

Dict(n) == Val("dict", "", n)

\* Python truth value, as `x or y` and `if not x` test it
Truthy(v) ==
  CASE v.k = "str" -> v.s # ""
    [] v.k = "int" -> v.n # 0
    [] v.k \in {"list", "dict"} -> v.n > 0
    [] OTHER -> FALSE

\* an element of the links / socialLinks arrays: a mapping with its three
\* fields of interest, or a value that is no mapping
Mapping(title, url, type) ==
  [k |-> "dict", s |-> "", n |-> 0, title |-> title, url |-> url, type |-> type]

NonMapping(v) ==
  [k |-> v.k, s |-> v.s, n |-> v.n, title |-> Absent, url |-> Absent, type |-> Absent]

\* dict.get(key): None stands for an absent key
Get(v) == IF v.k = "absent" THEN None ELSE v

\* the outcome of a call: the exception it raised ("" for none) and its value
Ok(v) == [raised |-> "", val |-> v]

Raise(e) == [raised |-> e, val |-> ""]

\* ------------------------------------------------- urlparse(url).netloc
SCHEME_EXTRA == "+-."

IsSchemeChar(c) == IsAlpha(c) \/ Contains(DIGITS, c) \/ Contains(SCHEME_EXTRA, c)

\* urlsplit's scheme test: a colon after the first character, the first
\* character a letter, every character before the colon a scheme character;
\* the result is what follows the scheme (the whole url when there is none)
AfterScheme(url) ==
  LET i == Find(url, ":")
  IN IF /\ i > 1
        /\ IsAlpha(Ch(url, 1))
        /\ \A j \in 1..(i - 1) : IsSchemeChar(Ch(url, j))
     THEN Rest(url, i + 1)
     ELSE url

\* _splitnetloc(url, 2): from after the "//" up to the first of / ? #
SplitNetloc(url) ==
  LET ends == {i \in 3..Len(url) : Ch(url, i) \in {"/", "?", "#"}}
      delim == IF ends = {} THEN Len(url) + 1
               ELSE CHOOSE i \in ends : \A j \in ends : i <= j
  IN SubSeq(url, 3, delim - 1)

\* urlparse(url).netloc for a str url: leading blanks are dropped, the
\* scheme is split off, and a url that then starts with "//" has a netloc;
\* a netloc with one square bracket but not the other raises ValueError
UrlNetloc(url) ==
  LET u == AfterScheme(LStrip(url))
  IN IF StartsWith(u, "//")
     THEN LET netloc == SplitNetloc(u)
          IN IF Contains(netloc, "[") # Contains(netloc, "]")
             THEN Raise("ValueError")
             ELSE Ok(netloc)
     ELSE Ok("")

\* urlparse(value).netloc for any value: a value that is no str has no
\* decode method, so _coerce_args raises AttributeError
ParseNetloc(v) == IF v.k = "str" THEN UrlNetloc(v.s) ELSE Raise("AttributeError")

\* ------------------------------------------------------ SUBTITLE_OVERRIDES
SUBTITLE_OVERRIDES ==
  [k \in {"last.fm", "goodreads", "flickr", "steam", "roadmap.sh",
          "streamlit", "kaggle", "strava"} |->
     CASE k = "last.fm" -> "Listening history & scrobbles."
       [] k = "goodreads" -> "Books I'm reading and want to read."
       [] k = "flickr" -> "Photos and visual notes."
       [] k = "steam" -> "Games I play when I'm not reading papers."
       [] k = "roadmap.sh" -> "Developer roadmaps I track and recommend."
       [] k = "streamlit" -> "Apps and experiments built with data."
       [] k = "kaggle" -> "Datasets, notebooks and ML experiments."
       [] k = "strava" -> "Tracking rides and runs."]

VisitText(title) == "Visit " \o title

\* _subtitle_for without the .lower() of the domain
SubtitleDomainKeyNoLower(netloc) == SplitFirst(Replace(netloc, "www.", ""), ".")

\* _subtitle_for(title, url): title a str, url a str value or None
SubtitleDomainKey(netloc) == SplitFirst(Lower(Replace(netloc, "www.", "")), ".")

SubtitleFor(title, url) ==
  LET key == Lower(Strip(title))
  IN IF key \in DOMAIN SUBTITLE_OVERRIDES THEN Ok(SUBTITLE_OVERRIDES[key])
     ELSE IF ~Truthy(url) THEN Ok(VisitText(title))
     ELSE LET p == ParseNetloc(url)
          IN IF p.raised # "" THEN p
             ELSE LET domain_key == SubtitleDomainKey(p.val)
                  IN IF domain_key \in DOMAIN SUBTITLE_OVERRIDES
                     THEN Ok(SUBTITLE_OVERRIDES[domain_key])
                     ELSE Ok(VisitText(title))

\* _display_title(link): (link.get("title") or "").strip() raises
\* AttributeError on a truthy title that is no str
TitleDomain(netloc) == Replace(netloc, "www.", "")

TitleCandidate(domain) == Title(Replace(SplitFirst(domain, "."), "-", " "))

DisplayTitle(link) ==
  LET t == IF Truthy(Get(link.title)) THEN link.title ELSE Str("")
  IN IF t.k # "str" THEN Raise("AttributeError")
     ELSE IF Strip(t.s) # "" THEN Ok(Strip(t.s))
     ELSE LET u == IF Truthy(Get(link.url)) THEN link.url ELSE Str("")
              p == ParseNetloc(u)
          IN IF p.raised # "" THEN p
             ELSE LET domain == TitleDomain(p.val)
                  IN IF domain = "" THEN Ok("Link")
                     ELSE IF TitleCandidate(domain) # ""
                          THEN Ok(TitleCandidate(domain))
                          ELSE Ok("Link")

\* _safe_link_url returning the value itself instead of the stripped text
SafeLinkUrlUnstripped(value) ==
  IF value.k = "str" /\ Strip(value.s) # "" THEN value ELSE None

\* _safe_link_url(value): the stripped str, or None
SafeLinkUrl(value) ==
  IF value.k = "str" /\ Strip(value.s) # "" THEN Str(Strip(value.s)) ELSE None

\* raw_url or "#"
UrlOrPlaceholder(raw_url) == IF Truthy(raw_url) THEN raw_url.s ELSE "#"

\* the try/except around _subtitle_for: any exception gives "Visit {title}";
\* one that is no TypeError is also printed
SubtitleGuarded(title, raw_url) ==
  LET r == SubtitleFor(title, raw_url)
  IN IF r.raised = "" THEN r.val ELSE VisitText(title)

\* social_link.get("type", "LINK").upper(): the default covers an absent
\* key only; a value that is no str has no upper method
SocialType(link) ==
  IF link.type.k = "absent" THEN Ok(Upper("LINK"))
  ELSE IF link.type.k = "str" THEN Ok(Upper(link.type.s))
  ELSE Raise("AttributeError")

\* social_type[0] if len(social_type) > 0 else "?"
SocialIcon(social_type) == IF Len(social_type) > 0 THEN Ch(social_type, 1) ELSE "?"

\* ------------------------------------------------------------- the inputs
SeqsUpTo(S, n) == UNION {[1..m -> S] : m \in 0..n}

\* elements of the "links" array of the payload
LinkSamples ==
  { NonMapping(Str("not-a-mapping")),
    NonMapping(Num(7)),
    Mapping(Str("Kaggle"), Str("http://kaggle.com/alice"), Absent),
    Mapping(Absent, Str("http://example.org/thing"), Absent),
    Mapping(Num(5), Str("http://example.org/five"), Absent) }

\* elements of the "socialLinks" array of the payload
SocialSamples ==
  { NonMapping(Str("twitter")),
    Mapping(Absent, Absent, Str("twitter")),
    Mapping(Absent, Str(" http://t "), Str("twitter")),
    Mapping(Absent, Str("http://n"), None) }

PayloadKeys ==
  {"props", "pageProps", "account", "profilePictureUrl", "username",
   "socialLinks", "links"}

\* a saved page: whether the file can be read, whether it holds a script
\* element with id __NEXT_DATA__, whether that element's text is JSON, which
\* keys of the path the JSON has, and the two arrays
Document(readable, marker, json_ok, keys, socialLinks, links) ==
  [readable |-> readable, marker |-> marker, json_ok |-> json_ok, keys |-> keys,
   username |-> Str("alice"), profilePictureUrl |-> Str("http://x/img.jpg"),
   socialLinks |-> socialLinks, links |-> links]

BaseSocial == <<Mapping(Absent, Str("http://t"), Str("twitter"))>>

BaseLinks ==
  <<Mapping(Str("Kaggle"), Str("http://kaggle.com/alice"), Absent),
    Mapping(Absent, Str("http://example.org/thing"), Absent),
    NonMapping(Str("not-a-mapping"))>>

Docs ==
  { Document(FALSE, TRUE, TRUE, PayloadKeys, BaseSocial, BaseLinks),
    Document(TRUE, FALSE, TRUE, PayloadKeys, BaseSocial, BaseLinks),
    Document(TRUE, TRUE, FALSE, PayloadKeys, BaseSocial, BaseLinks) }
  \cup { Document(TRUE, TRUE, TRUE, PayloadKeys \ {k}, BaseSocial, BaseLinks) :
           k \in PayloadKeys }
  \cup { Document(TRUE, TRUE, TRUE, PayloadKeys, s, l) :
           s \in SeqsUpTo(SocialSamples, MaxLen), l \in SeqsUpTo(LinkSamples, MaxLen) }

NoData ==
  [profile_picture_url |-> Absent, username |-> Absent,
   social_links |-> <<>>, links |-> <<>>]

\* ------------------------------------------------- scrape_linktree_data
\* scrape_linktree_data reading the path with .get(..., {}) instead of [...]
scrape_with_get(d) ==
  IF ~d.readable THEN Raise("FileNotFoundError")
  ELSE IF ~d.marker THEN Raise("ValueError")
  ELSE IF ~d.json_ok THEN Raise("JSONDecodeError")
  ELSE Ok([profile_picture_url |->
             IF "profilePictureUrl" \in d.keys THEN d.profilePictureUrl ELSE None,
           username |-> IF "username" \in d.keys THEN d.username ELSE None,
           social_links |-> IF "socialLinks" \in d.keys THEN d.socialLinks ELSE <<>>,
           links |-> IF "links" \in d.keys THEN d.links ELSE <<>>])

\* open and read the file, find the script element, json.loads its text,
\* then index props, pageProps, account, profilePictureUrl and username
scrape_linktree_data(d) ==
  IF ~d.readable THEN Raise("FileNotFoundError")
  ELSE IF ~d.marker THEN Raise("ValueError")
  ELSE IF ~d.json_ok THEN Raise("JSONDecodeError")
  ELSE IF \E k \in {"props", "pageProps", "account", "profilePictureUrl", "username"} :
            k \notin d.keys
       THEN Raise("KeyError")
  ELSE Ok([profile_picture_url |-> d.profilePictureUrl,
           username |-> d.username,
           social_links |-> IF "socialLinks" \in d.keys THEN d.socialLinks ELSE <<>>,
           links |-> IF "links" \in d.keys THEN d.links ELSE <<>>])

\* an exception on its way out of build_site: its type and the step of the
\* run whose code raised it
Error(type, step) == [type |-> type, step |-> step]

NoError == Error("", "")

Diag(what, i, kind) == [what |-> what, idx |-> i, kind |-> kind]

\* ------------------------------------------------------------ build_site
Init ==
  /\ pc = "start"
  /\ doc \in Docs
  /\ data = NoData
  /\ err = NoError
  /\ files = {}
  /\ fetches = 0
  /\ diags = <<>>
  /\ social_idx = 0
  /\ social_items = <<>>
  /\ idx = 0
  /\ link_items = <<>>
  /\ page = <<>>

\* build_site: scraped_data = scrape_linktree_data(html_file)
Scrape ==
  /\ pc = "start"
  /\ LET r == scrape_linktree_data(doc)
     IN IF r.raised # ""
        THEN /\ pc' = "failed"
             /\ err' = Error(r.raised, "scrape")
             /\ data' = data
        ELSE /\ pc' = "download"
             /\ err' = err
             /\ data' = r.val
  /\ UNCHANGED <<doc, files, fetches, diags, social_idx, social_items, idx,
                 link_items, page>>

\* download_profile_picture: one request; status 200 writes the file, any
\* other status and any exception print a line, and the function returns
FetchOutcomes == {"ok", "bad_status", "exception"}

download_profile_picture(outcome) ==
  /\ fetches' = fetches + 1
  /\ files' = IF outcome = "ok" THEN files \cup {"profile_picture.jpg"} ELSE files
  /\ diags' = IF outcome = "ok" THEN diags
              ELSE Append(diags, Diag("download_failed", 0, outcome))

Download ==
  /\ pc = "download"
  /\ \E outcome \in FetchOutcomes : download_profile_picture(outcome)
  /\ pc' = "social"
  /\ UNCHANGED <<doc, data, err, social_idx, social_items, idx, link_items, page>>

\* generate_html, one pass of `for social_link in social_links`
SocialItem(link) ==
  [type |-> SocialType(link).val,
   icon |-> SocialIcon(SocialType(link).val),
   url |-> SafeLinkUrl(Get(link.url)).s]

SocialStep ==
  /\ pc = "social"
  /\ social_idx < Len(data.social_links)
  /\ LET link == data.social_links[social_idx + 1]
     IN IF link.k # "dict" \/ ~Truthy(SafeLinkUrl(Get(link.url)))
        THEN /\ social_idx' = social_idx + 1
             /\ UNCHANGED <<pc, err, social_items>>
        ELSE IF SocialType(link).raised # ""
        THEN /\ pc' = "failed"
             /\ err' = Error(SocialType(link).raised, "social")
             /\ UNCHANGED <<social_idx, social_items>>
        ELSE /\ social_items' = Append(social_items, SocialItem(link))
             /\ social_idx' = social_idx + 1
             /\ UNCHANGED <<pc, err>>
  /\ UNCHANGED <<doc, data, files, fetches, diags, idx, link_items, page>>

\* generate_html: the social loop is over, social_nav_html is built
BuildSocialNav ==
  /\ pc = "social"
  /\ social_idx = Len(data.social_links)
  /\ pc' = "links"
  /\ UNCHANGED <<doc, data, err, files, fetches, diags, social_idx, social_items,
                 idx, link_items, page>>

\* generate_html, one pass of `for idx, link in enumerate(raw_links)`
LinkItem(link) ==
  [title |-> DisplayTitle(link).val,
   url |-> UrlOrPlaceholder(SafeLinkUrl(Get(link.url))),
   subtitle |-> SubtitleGuarded(DisplayTitle(link).val, SafeLinkUrl(Get(link.url)))]

SubtitleDiags(link) ==
  LET r == SubtitleFor(DisplayTitle(link).val, SafeLinkUrl(Get(link.url)))
  IN IF r.raised \notin {"", "TypeError"}
     THEN <<Diag("subtitle_fallback", idx, r.raised)>>
     ELSE <<>>

LinkStep ==
  /\ pc = "links"
  /\ idx < Len(data.links)
  /\ LET link == data.links[idx + 1]
     IN IF link.k # "dict"
        THEN /\ diags' = Append(diags, Diag("skip_link", idx, link.k))
             /\ idx' = idx + 1
             /\ UNCHANGED <<pc, err, link_items>>
        ELSE IF DisplayTitle(link).raised # ""
        THEN /\ pc' = "failed"
             /\ err' = Error(DisplayTitle(link).raised, "links")
             /\ UNCHANGED <<idx, link_items, diags>>
        ELSE /\ link_items' = Append(link_items, LinkItem(link))
             /\ diags' = diags \o SubtitleDiags(link)
             /\ idx' = idx + 1
             /\ UNCHANGED <<pc, err>>
  /\ UNCHANGED <<doc, data, files, fetches, social_idx, social_items, page>>

\* data.get("username", "athoye")
Username(d) == IF d.username.k = "absent" THEN Str("athoye") ELSE d.username

\* generate_html: the link loop is over, index.html is written
WriteHtml ==
  /\ pc = "links"
  /\ idx = Len(data.links)
  /\ files' = files \cup {"index.html"}
  /\ page' = <<[username |-> Username(data), social |-> social_items,
                links |-> link_items]>>
  /\ pc' = "css"
  /\ UNCHANGED <<doc, data, err, fetches, diags, social_idx, social_items, idx,
                 link_items>>

\* generate_css: style.css is written; build_site prints its last line
GenerateCss ==
  /\ pc = "css"
  /\ files' = files \cup {"style.css"}
  /\ pc' = "done"
  /\ UNCHANGED <<doc, data, err, fetches, diags, social_idx, social_items, idx,
                 link_items, page>>

Next ==
  \/ Scrape
  \/ Download
  \/ SocialStep
  \/ BuildSocialNav
  \/ LinkStep
  \/ WriteHtml
  \/ GenerateCss

Spec == Init /\ [][Next]_vars

\* ------------------------------------------- generate_html called directly
\* generate_html(data) on a dict whose two lists hold one element each, the
\* element drawn from every combination of field values below
TitleValues ==
  { Absent, None, Str(""), Str(" "), Str("Kaggle"), Str(" Last.FM "),
    Str("My Site"), Num(5), Num(0), List(1), List(0), Dict(1) }

UrlValues ==
  { Absent, None, Str(""), Str("  "), Num(5), Num(0), List(1),
    Str("http://example-site.com/x"), Str("https://www.kaggle.com/a"),
    Str("http://Strava.com"), Str("http://mywww.example.org"),
    Str("example.org/thing"), Str(" http://example.org/thing "),
    Str("http://[bad"), Str("http://user@steam.com"),
    Str("http://WWW.flickr.com"), Str("http://-.com"), Str("http://.com"),
    Str("//goodreads.com?x"), Str("mailto:a@b.c"),
    Str("http://www.roadmap.sh/a"), Str("http://x.www.y.com:80#f") }

TypeValues == { Absent, None, Str(""), Str("twitter"), Str("gitHub"), Num(3) }

SocialUrlValues == { Absent, None, Str(""), Str(" "), Num(5), Str(" http://t ") }

NonMappings == { NonMapping(Str("x")), NonMapping(Num(7)), NonMapping(None),
                 NonMapping(List(2)) }

LinkEntries ==
  {Mapping(t, u, Absent) : t \in TitleValues, u \in UrlValues} \cup NonMappings

SocialEntries ==
  {Mapping(Absent, u, ty) : u \in SocialUrlValues, ty \in TypeValues} \cup NonMappings

GenData ==
  { [profile_picture_url |-> Str("http://x/img.jpg"), username |-> u,
     social_links |-> s, links |-> l] :
      u \in {Str("alice"), Absent},
      s \in {<<>>} \cup {<<e>> : e \in SocialEntries},
      l \in {<<e>> : e \in LinkEntries} }

InitGen ==
  /\ pc = "social"
  /\ doc = Document(TRUE, TRUE, TRUE, PayloadKeys, <<>>, <<>>)
  /\ data \in GenData
  /\ err = NoError
  /\ files = {}
  /\ fetches = 0
  /\ diags = <<>>
  /\ social_idx = 0
  /\ social_items = <<>>
  /\ idx = 0
  /\ link_items = <<>>
  /\ page = <<>>

NextGen ==
  \/ SocialStep
  \/ BuildSocialNav
  \/ LinkStep
  \/ WriteHtml

SpecGen == InitGen /\ [][NextGen]_vars

\* ================================================================ claims
IsMapping(e) == e.k = "dict"

\* the 1-based position in raw_links of the j-th mapping element
NthMapping(j) ==
  CHOOSE i \in 1..Len(data.links) :
    /\ IsMapping(data.links[i])
    /\ Cardinality({m \in 1..i : IsMapping(data.links[m])}) = j

\* the link mapping the j-th element of link_items was made from
SourceOf(j) == data.links[NthMapping(j)]

Emitted == 1..Len(link_items)

UsableUrl(v) == v.k = "str" /\ Strip(v.s) # ""

UsableSocial(e) == IsMapping(e) /\ UsableUrl(e.url)

InTable(key) == key \in DOMAIN SUBTITLE_OVERRIDES

ExtractionFailed == pc = "failed" /\ err.step = "scrape"

LinkLoopEnded == pc \in {"css", "done"} \/ (pc = "failed" /\ err.step = "links")

SocialLoopEnded ==
  pc \in {"links", "css", "done"} \/ (pc = "failed" /\ err.step \in {"social", "links"})

\* a document with no __NEXT_DATA__ block, with a block that is not JSON, or
\* with props, pageProps or account missing
BadDocument ==
  \/ ~doc.marker
  \/ ~doc.json_ok
  \/ \E k \in {"props", "pageProps", "account"} : k \notin doc.keys

\* a document whose payload is complete but for the username key of account
NoUsernameDocument ==
  /\ doc.readable /\ doc.marker /\ doc.json_ok
  /\ {"props", "pageProps", "account"} \subseteq doc.keys
  /\ "username" \notin doc.keys

\* the skip lines that raw_links calls for: one for each element that is no
\* mapping, in order, with its 0-based position and its type name
ExpectedSkips ==
  LET F[i \in 0..Len(data.links)] ==
        IF i = 0 THEN <<>>
        ELSE IF IsMapping(data.links[i]) THEN F[i - 1]
             ELSE Append(F[i - 1], Diag("skip_link", i - 1, data.links[i].k))
  IN F[Len(data.links)]

\* the displayTitle rule with only a leading "www." removed from the host
StripLeadingWww(host) == IF StartsWith(host, "www.") THEN Rest(host, 5) ELSE host

ClaimedTitle(link) ==
  IF link.title.k = "str" /\ Strip(link.title.s) # "" THEN Strip(link.title.s)
  ELSE IF link.url.k # "str" \/ UrlNetloc(link.url.s).raised # "" THEN "Link"
  ELSE LET host == StripLeadingWww(UrlNetloc(link.url.s).val)
           made == Title(Replace(SplitFirst(host, "."), "-", " "))
       IN IF host = "" \/ made = "" THEN "Link" ELSE made

\* the subtitle rule with the host key looked up as it is written in the url
ClaimedSubtitle(title, link) ==
  LET key == Lower(Strip(title))
      p == IF UsableUrl(link.url) THEN UrlNetloc(Strip(link.url.s)) ELSE Raise("none")
      hostKey == SplitFirst(Replace(p.val, "www.", ""), ".")
  IN IF InTable(key) THEN SUBTITLE_OVERRIDES[key]
     ELSE IF p.raised = "" /\ InTable(hostKey) THEN SUBTITLE_OVERRIDES[hostKey]
     ELSE "Visit " \o title

\* the subtitle rule with the host key lower-cased before the lookup
AmendedSubtitle(title, link) ==
  LET key == Lower(Strip(title))
      p == IF UsableUrl(link.url) THEN UrlNetloc(Strip(link.url.s)) ELSE Raise("none")
      hostKey == SplitFirst(Lower(Replace(p.val, "www.", "")), ".")
  IN IF InTable(key) THEN SUBTITLE_OVERRIDES[key]
     ELSE IF p.raised = "" /\ InTable(hostKey) THEN SUBTITLE_OVERRIDES[hostKey]
     ELSE "Visit " \o title

\* C1: the per-link loop of generate_html never raises, whatever the raw
\* entries are, so no run is left by an exception of that loop.
C1_LinkLoopNeverRaises == ~(pc = "failed" /\ err.step = "links")

\* C2: a document with no __NEXT_DATA__ block, with a block that is not JSON,
\* or with props, pageProps or account missing makes build_site end with an
\* error of the extraction; no fetch was attempted and no file was written.
C2_ExtractionAllOrNothing ==
  BadDocument =>
    /\ pc \in {"start", "failed"}
    /\ pc = "failed" => err.type # "" /\ err.step = "scrape"
    /\ fetches = 0
    /\ files = {}
    /\ page = <<>>

C2_Witness ==
  /\ doc.readable /\ doc.marker /\ doc.json_ok
  /\ "account" \notin doc.keys
  /\ pc = "failed"
  /\ err.type = "KeyError"

\* C3: once extraction has succeeded, a run that has ended has made exactly
\* one fetch, has written index.html and style.css, and has ended in success,
\* whatever the outcome of the fetch was.
C3_FetchThenSuccess ==
  (pc \in {"done", "failed"} /\ ~ExtractionFailed) =>
    /\ fetches = 1
    /\ pc = "done"
    /\ {"index.html", "style.css"} \subseteq files

\* C4: a payload whose account object has no username key does not make the
\* run fail.
C4_MissingUsernameFallsBack == NoUsernameDocument => pc # "failed"

\* C5: when the link loop has ended, link_items has one element for each
\* mapping of raw_links, and the skip lines printed name, in order, the
\* position and the type of each element that is no mapping.
C5_OneEntryPerMapping ==
  LinkLoopEnded =>
    /\ Len(link_items) = Cardinality({i \in 1..Len(data.links) : IsMapping(data.links[i])})
    /\ SelectSeq(diags, LAMBDA d : d.what = "skip_link") = ExpectedSkips

\* C6: displayTitle is the trimmed title when that is non-blank; otherwise it
\* is made from the url's host with a leading "www." (and only a leading one)
\* removed, cut at the first dot, hyphens turned to blanks, title-cased; with
\* no host to use it is "Link".
C6_DisplayTitleRule ==
  \A j \in Emitted : link_items[j].title = ClaimedTitle(SourceOf(j))

C8_EmittedEntryInvariant ==
  \A j \in Emitted :
    /\ link_items[j].title # ""
    /\ link_items[j].url =
         IF UsableUrl(SourceOf(j).url) THEN Strip(SourceOf(j).url.s) ELSE "#"

C8_Witness ==
  \E j \in Emitted :
    /\ SourceOf(j).url = Str(" http://example.org/thing ")
    /\ SourceOf(j).title = Str(" ")
    /\ link_items[j].url = "http://example.org/thing"
    /\ link_items[j].title = "Example"

\* C9: when the social loop has ended, social_items has one element for each
\* mapping of social_links whose url is a str non-blank after trimming, so
\* its length is that of the input less the entries without a usable url.
C9_SocialItemsAreUsableEntries ==
  SocialLoopEnded =>
    Len(social_items) =
      Cardinality({i \in 1..Len(data.social_links) : UsableSocial(data.social_links[i])})

\* C10: the social loop never raises, whatever the type field of an entry
\* with a usable url is.
C10_SocialLoopNeverRaises == ~(pc = "failed" /\ err.step = "social")

====
